---- MODULE Spec2Model ----
(***************************************************************************)
(* defiscanner: the DefiLlama fee processor (src/defi_processor.py) and    *)
(* the FastAPI service that caches its snapshot in Redis (src/main.py).    *)
(*                                                                         *)
(* Strings the code inspects (chain names, protocol names, date strings)   *)
(* are sequences of character codes, so that str.lower(), strftime and the *)
(* string order used by sorted() are computed rather than assumed.         *)
(* Fee values are integers. main.py imports the defi_processor.py beside   *)
(* it, the one with the Ethereum correction.                               *)
(***************************************************************************)
EXTENDS Integers, Sequences, FiniteSets, TLC

VARIABLES
    chain_name,      \* get_chain_data: the chain_name argument
    data,            \* get_chain_data: the per-chain endpoint's JSON response
    processed_data,  \* get_chain_data: what the call returned (or that it raised)
    overview,        \* upstream: the overview endpoint's response (allChains)
    chain_api,       \* upstream: chain name -> the per-chain endpoint's response
    built,           \* get_time_series_format: what the call returned
    now,             \* wall clock, seconds
    redis_mode,      \* cache backend: "up", "down" or "flaky"
    cache,           \* Redis: the value under CACHE_KEY and its expiry
    started,         \* the process has run its startup event and serves requests
    last             \* the last handler run: its inputs and its response

vars == <<chain_name, data, processed_data, overview, chain_api, built,
          now, redis_mode, cache, started, last>>

procVars == <<chain_name, data, processed_data>>
upstreamVars == <<overview, chain_api>>
serviceVars == <<now, redis_mode, cache, started, last>>

-----------------------------------------------------------------------------
(* Bounds of the model.                                                     *)

MaxPoints == 2       \* points of a totalDataChart
MaxProtocols == 2    \* protocols of a per-chain response
MaxChains == 3       \* length of allChains
MaxTicks == 4        \* clock advances of TickSeconds

-----------------------------------------------------------------------------
(* String literals of the source, as character codes.                       *)

S_ethereum == <<101, 116, 104, 101, 114, 101, 117, 109>>
S_Ethereum == <<69, 116, 104, 101, 114, 101, 117, 109>>
S_ETHEREUM == <<69, 84, 72, 69, 82, 69, 85, 77>>
S_Bitcoin == <<66, 105, 116, 99, 111, 105, 110>>
S_Solana == <<83, 111, 108, 97, 110, 97>>
S_tether == <<116, 101, 116, 104, 101, 114>>
S_circle == <<99, 105, 114, 99, 108, 101>>
S_usdt == <<117, 115, 100, 116>>
S_usdc == <<117, 115, 100, 99>>
S_Tether == <<84, 101, 116, 104, 101, 114>>
S_Circle == <<67, 105, 114, 99, 108, 101>>
S_USDT == <<85, 83, 68, 84>>
S_USDC == <<85, 83, 68, 67>>
S_Lido == <<76, 105, 100, 111>>

\* str.lower() on ASCII: 'A'..'Z' (65..90) move to 'a'..'z'.
Lower(s) == [i \in 1..Len(s) |-> IF s[i] >= 65 /\ s[i] <= 90 THEN s[i] + 32 ELSE s[i]]

\* Python's order on str: by code point, a proper prefix first.
RECURSIVE StrLess(_, _)
StrLess(a, b) ==
    IF b = <<>> THEN FALSE
    ELSE IF a = <<>> THEN TRUE
    ELSE IF Head(a) # Head(b) THEN Head(a) < Head(b)
    ELSE StrLess(Tail(a), Tail(b))

\* x in list
InList(x, list) == \E i \in 1..Len(list) : list[i] = x

-----------------------------------------------------------------------------
(* datetime.utcfromtimestamp(int(timestamp)).strftime('%Y-%m-%d')           *)

SecondsPerDay == 86400

\* The proleptic Gregorian date <<year, month, day>> of a day number
\* (days since 1970-01-01).
CivilFromDays(z) ==
    LET z2 == z + 719468
        era == z2 \div 146097
        doe == z2 - era * 146097
        yoe == (doe - (doe \div 1460) + (doe \div 36524) - (doe \div 146096)) \div 365
        doy == doe - (365 * yoe + (yoe \div 4) - (yoe \div 100))
        mp == (5 * doy + 2) \div 153
        d == doy - ((153 * mp + 2) \div 5) + 1
        m == IF mp < 10 THEN mp + 3 ELSE mp - 9
        y == yoe + era * 400 + (IF m <= 2 THEN 1 ELSE 0)
    IN <<y, m, d>>

Digit(n) == 48 + n
Pad2(n) == <<Digit(n \div 10), Digit(n % 10)>>
Pad4(n) == <<Digit(n \div 1000), Digit((n \div 100) % 10), Digit((n \div 10) % 10), Digit(n % 10)>>

\* '%Y-%m-%d' (45 is '-')
strftime(ymd) == Pad4(ymd[1]) \o <<45>> \o Pad2(ymd[2]) \o <<45>> \o Pad2(ymd[3])

utcfromtimestamp(timestamp) == CivilFromDays(timestamp \div SecondsPerDay)

date_of(timestamp) == strftime(utcfromtimestamp(timestamp))

-----------------------------------------------------------------------------
(* DeFiChainDataProcessor.get_chain_data                                    *)
(*                                                                          *)
(* A per-chain response is                                                  *)
(*   [fails, hasChart, totalDataChart, hasProtocols, protocols]             *)
(* fails: requests.get / response.json() raises; has*: the key is present.  *)
(* A protocol is [name, hasChains, chains, hasBreakdown, breakdown].        *)
(* A call's outcome is [raised, rows]: rows are [date, value] records.      *)

AllowList == <<S_tether, S_circle, S_usdt, S_usdc>>

\* data.get("protocols", [])
protocols_of(d) == IF d.hasProtocols THEN d.protocols ELSE <<>>

\* protocol.get("chains", [])
chains_of(protocol) == IF protocol.hasChains THEN protocol.chains ELSE <<>>

\* The name test alone, without the chains test of line 50.
in_correction_set_AnyChain(protocol) == InList(Lower(protocol.name), AllowList)

\* lines 49-50: the two nested conditions
in_correction_set(protocol) ==
    /\ InList(Lower(protocol.name), AllowList)
    /\ InList(S_Ethereum, chains_of(protocol))

\* lines 46-52
tether_circle_protocols(d) == SelectSeq(protocols_of(d), in_correction_set)

\* Matching a breakdown entry by its UTC date instead of by `ts == timestamp`.
RECURSIVE breakdown_fees_ByDate(_, _)
breakdown_fees_ByDate(breakdown, timestamp) ==
    IF breakdown = <<>> THEN 0
    ELSE (IF date_of(Head(breakdown)[1]) = date_of(timestamp)
          THEN Head(breakdown)[2] ELSE 0)
         + breakdown_fees_ByDate(Tail(breakdown), timestamp)

\* lines 66-68: the fees of one breakdown at `timestamp`
RECURSIVE breakdown_fees(_, _)
breakdown_fees(breakdown, timestamp) ==
    IF breakdown = <<>> THEN 0
    ELSE (IF Head(breakdown)[1] = timestamp THEN Head(breakdown)[2] ELSE 0)
         + breakdown_fees(Tail(breakdown), timestamp)

\* lines 63-68: what the protocols loop takes off `value`
RECURSIVE protocol_fees(_, _)
protocol_fees(protocols, timestamp) ==
    IF protocols = <<>> THEN 0
    ELSE (IF Head(protocols).hasBreakdown
          THEN breakdown_fees(Head(protocols).breakdown, timestamp)
          ELSE 0)
         + protocol_fees(Tail(protocols), timestamp)

is_ethereum(name) == Lower(name) = S_ethereum

\* The correction applied whatever the chain, without the tests of lines 44
\* and 61.
get_chain_data_AllChains(name, d) ==
    IF d.fails \/ ~d.hasChart THEN [raised |-> TRUE, rows |-> <<>>]
    ELSE
        LET tcp == tether_circle_protocols(d)
            chart == d.totalDataChart
        IN [raised |-> FALSE,
            rows |-> [i \in 1..Len(chart) |->
                        [date |-> date_of(chart[i][1]),
                         value |-> chart[i][2] - protocol_fees(tcp, chart[i][1])]]]

\* lines 34-75
get_chain_data(name, d) ==
    IF d.fails \/ ~d.hasChart THEN [raised |-> TRUE, rows |-> <<>>]
    ELSE
        LET tcp == IF is_ethereum(name) THEN tether_circle_protocols(d) ELSE <<>>
            chart == d.totalDataChart
        IN [raised |-> FALSE,
            rows |-> [i \in 1..Len(chart) |->
                        [date |-> date_of(chart[i][1]),
                         value |-> IF is_ethereum(name) /\ tcp # <<>>
                                   THEN chart[i][2] - protocol_fees(tcp, chart[i][1])
                                   ELSE chart[i][2]]]]

-----------------------------------------------------------------------------
(* DeFiChainDataProcessor.get_chain_names and get_time_series_format        *)
(*                                                                          *)
(* The overview response is [fails, allChains]; a snapshot build returns    *)
(* [raised, dates, all_data], all_data a function chain -> (date -> value). *)

\* lines 28-32
get_chain_names(ov) ==
    IF ov.fails THEN [raised |-> TRUE, names |-> <<>>]
    ELSE [raised |-> FALSE, names |-> ov.allChains]

\* d[k] = v on a dict
Put(f, k, v) == [x \in DOMAIN f \cup {k} |-> IF x = k THEN v ELSE f[x]]

\* lines 93-96: {entry['date']: entry['value'] for entry in chain_data};
\* a later entry of the same date overwrites an earlier one.
date_value_dict(rows) ==
    [d \in {rows[i].date : i \in 1..Len(rows)} |->
        rows[CHOOSE i \in 1..Len(rows) :
                /\ rows[i].date = d
                /\ \A j \in 1..Len(rows) : rows[j].date = d => j <= i].value]

\* lines 88-100: the loop over chain_names, from all_data = acc
\* (Here and below, x \in {e} names the value of e, computed once.)

\* lines 89-100, without the try and the `if chain_data`
loop_body_NoTry(chain, api, all_data) ==
    CHOOSE after \in
        {Put(all_data, chain, date_value_dict(chain_data.rows)) :
            chain_data \in {get_chain_data(chain, api[chain])}} : TRUE

\* lines 89-100: one iteration of the loop, giving the new all_data
loop_body(chain, api, all_data) ==
    CHOOSE after \in
        {IF ~chain_data.raised /\ chain_data.rows # <<>>
         THEN Put(all_data, chain, date_value_dict(chain_data.rows))
         ELSE all_data :
            chain_data \in {get_chain_data(chain, api[chain])}} : TRUE

\* lines 88-100: the loop over chain_names, from all_data = acc
RECURSIVE collect_chains(_, _, _)
collect_chains(names, api, acc) ==
    IF names = <<>> THEN acc
    ELSE CHOOSE all_data \in
            {collect_chains(Tail(names), api, after) :
                after \in {loop_body(Head(names), api, acc)}} : TRUE

\* sorted(S) for a set of strings
RECURSIVE sorted(_)
sorted(S) ==
    IF S = {} THEN <<>>
    ELSE LET least == CHOOSE x \in S : \A y \in S : y # x => StrLess(x, y)
         IN <<least>> \o sorted(S \ {least})

\* list(S): the elements in some other order (here the reverse one)
RECURSIVE listed(_)
listed(S) ==
    IF S = {} THEN <<>>
    ELSE LET greatest == CHOOSE x \in S : \A y \in S : y # x => StrLess(y, x)
         IN <<greatest>> \o listed(S \ {greatest})

\* list(set(...)) in place of sorted(set(...)).
all_dates_Unsorted(all_data) ==
    listed(UNION {DOMAIN all_data[c] : c \in DOMAIN all_data})

\* lines 103-107
all_dates(all_data) ==
    sorted(UNION {DOMAIN all_data[c] : c \in DOMAIN all_data})

\* lines 77-109
get_time_series_format(ov, api) ==
    LET chain_names == get_chain_names(ov)
    IN IF chain_names.raised
       THEN [raised |-> TRUE, dates |-> <<>>, all_data |-> <<>>]
       ELSE CHOOSE result \in
                {[raised |-> FALSE,
                  dates |-> all_dates(all_data),
                  all_data |-> all_data] :
                    all_data \in {collect_chains(chain_names.names, api, <<>>)}} : TRUE

-----------------------------------------------------------------------------
(* Inputs of the processor's functions.                                     *)

BoundedSeq(S, n) == UNION {[1..k -> S] : k \in 0..n}

ChainNamePool == {S_Ethereum, S_ETHEREUM, S_Bitcoin}

\* <<timestamp, value>>; 0 and 43200 are the same UTC day
ChartPoints == {<<0, 10>>, <<43200, 7>>, <<86400, 10>>}

Protocol(name, hasChains, chains, hasBreakdown, breakdown) ==
    [name |-> name, hasChains |-> hasChains, chains |-> chains,
     hasBreakdown |-> hasBreakdown, breakdown |-> breakdown]

ProtocolPool ==
    { Protocol(S_Tether, TRUE, <<S_Ethereum>>, TRUE, <<<<0, 3>>>>),
      Protocol(S_USDC, TRUE, <<S_Bitcoin, S_Ethereum>>, TRUE, <<<<0, 4>>, <<86400, 20>>>>),
      Protocol(S_circle, TRUE, <<S_Ethereum>>, FALSE, <<>>),
      Protocol(S_usdt, TRUE, <<S_Bitcoin>>, TRUE, <<<<0, 5>>>>),
      Protocol(S_Lido, TRUE, <<S_Ethereum>>, TRUE, <<<<0, 6>>>>),
      Protocol(S_USDT, FALSE, <<>>, TRUE, <<<<0, 5>>>>),
      Protocol(S_Circle, TRUE, <<S_Ethereum>>, TRUE, <<<<43200, 2>>, <<43200, 1>>>>),
      Protocol(S_tether, TRUE, <<S_ethereum>>, TRUE, <<<<0, 8>>>>) }

Response(fails, hasChart, chart, hasProtocols, protocols) ==
    [fails |-> fails, hasChart |-> hasChart, totalDataChart |-> chart,
     hasProtocols |-> hasProtocols, protocols |-> protocols]

FailedResponse == Response(TRUE, FALSE, <<>>, FALSE, <<>>)
NoChartResponse == Response(FALSE, FALSE, <<>>, FALSE, <<>>)

ChainResponses ==
    {Response(FALSE, TRUE, c, TRUE, ps) :
        c \in BoundedSeq(ChartPoints, MaxPoints),
        ps \in BoundedSeq(ProtocolPool, MaxProtocols)}
    \cup {Response(FALSE, TRUE, c, FALSE, <<>>) : c \in BoundedSeq(ChartPoints, MaxPoints)}
    \cup {FailedResponse, NoChartResponse}

ChainUniverse == {S_Ethereum, S_Bitcoin, S_Solana}

BuildResponses ==
    { FailedResponse,
      NoChartResponse,
      Response(FALSE, TRUE, <<>>, FALSE, <<>>),
      Response(FALSE, TRUE, <<<<0, 10>>, <<43200, 7>>>>, FALSE, <<>>),
      Response(FALSE, TRUE, <<<<951782400, 5>>, <<86400, 10>>>>, TRUE, <<>>),
      Response(FALSE, TRUE, <<<<2678400, 9>>, <<0, 10>>>>, TRUE,
               <<Protocol(S_Tether, TRUE, <<S_Ethereum>>, TRUE, <<<<0, 3>>>>)>>) }

Overview(fails, allChains) == [fails |-> fails, allChains |-> allChains]

Overviews ==
    {Overview(FALSE, cs) : cs \in BoundedSeq(ChainUniverse, MaxChains)}
    \cup {Overview(TRUE, <<>>)}

NotCalled == [called |-> FALSE, raised |-> FALSE, rows |-> <<>>]
NotBuilt == [called |-> FALSE, raised |-> FALSE, dates |-> <<>>, all_data |-> <<>>]

-----------------------------------------------------------------------------
(* main.py: the Redis-backed snapshot cache and the request handlers.       *)

\* main.py line 28
CACHE_EXPIRATION == 60 * 60 * 24

\* The clock of the model advances in steps of half the expiration.
TickSeconds == CACHE_EXPIRATION \div 2

\* json.dumps of a dict of scalars: the members as <<key, value>> pairs
dumps_series(f) ==
    CHOOSE text \in
        {[i \in 1..Len(keys) |-> <<keys[i], f[keys[i]]>>] :
            keys \in {sorted(DOMAIN f)}} : TRUE

\* json.dumps of a dict of dicts of scalars
dumps_chain_data(f) ==
    CHOOSE text \in
        {[i \in 1..Len(keys) |-> <<keys[i], dumps_series(f[keys[i]])>>] :
            keys \in {sorted(DOMAIN f)}} : TRUE

\* the value json.loads gives key k of an object: its last member wins
member(pairs, k) ==
    pairs[CHOOSE i \in 1..Len(pairs) :
            /\ pairs[i][1] = k
            /\ \A j \in 1..Len(pairs) : pairs[j][1] = k => j <= i][2]

loads_series(pairs) ==
    [k \in {pairs[i][1] : i \in 1..Len(pairs)} |-> member(pairs, k)]

loads_chain_data(pairs) ==
    [k \in {pairs[i][1] : i \in 1..Len(pairs)} |-> loads_series(member(pairs, k))]

\* json.dumps(data), lines 56-66
json_dumps(d) ==
    [dates |-> d.dates,
     chainData |-> dumps_chain_data(d.chainData),
     lastUpdated |-> d.lastUpdated]

\* json.loads(cached_data), line 84
json_loads(text) ==
    [dates |-> text.dates,
     chainData |-> loads_chain_data(text.chainData),
     lastUpdated |-> text.lastUpdated]

NoData == [dates |-> <<>>, chainData |-> <<>>, lastUpdated |-> -1]
NoCache ==
    [present |-> FALSE, value |-> json_dumps(NoData), stored_at |-> 0, expires_at |-> 0]

\* A store that never expires its keys.
redis_get_NoExpiry(c, t) == [hit |-> c.present, value |-> c.value]

\* redis_client.get(CACHE_KEY), line 80: None once the key has expired
redis_get(c, t) == [hit |-> c.present /\ t < c.expires_at, value |-> c.value]

\* redis_client.setex(CACHE_KEY, CACHE_EXPIRATION, value), lines 63-67
redis_setex(value, t) ==
    [present |-> TRUE, value |-> value, stored_at |-> t,
     expires_at |-> t + CACHE_EXPIRATION]

\* The outcomes a call to the backend can have: TRUE it answers, FALSE it
\* raises redis.RedisError.
RedisOutcomes(mode) ==
    IF mode = "up" THEN {TRUE} ELSE IF mode = "down" THEN {FALSE} ELSE BOOLEAN

\* lines 49-74. exc: "none", or the exception that left the function.
\* lines 56-74, from what get_time_series_format returned
fresh_data_from(f, t, c, setOk) ==
    LET b == [called |-> TRUE, raised |-> f.raised, dates |-> f.dates,
              all_data |-> f.all_data]
        d == [dates |-> f.dates, chainData |-> f.all_data, lastUpdated |-> t]
    IN IF f.raised
       THEN [exc |-> "Exception", data |-> NoData, cache |-> c, built |-> b]
       ELSE IF ~setOk
       THEN [exc |-> "RedisError", data |-> NoData, cache |-> c, built |-> b]
       ELSE [exc |-> "none", data |-> d,
             cache |-> redis_setex(json_dumps(d), t), built |-> b]

get_fresh_data(ov, api, t, c, setOk) ==
    CHOOSE r \in {fresh_data_from(f, t, c, setOk) :
                    f \in {get_time_series_format(ov, api)}} : TRUE

WithFetches(r, n) ==
    [exc |-> r.exc, data |-> r.data, cache |-> r.cache, built |-> r.built,
     fetches |-> n]

\* lines 76-92
get_cached_or_fresh_data(ov, api, t, c, getOk, setOk1, setOk2) ==
    IF getOk
    THEN LET cached_data == redis_get(c, t)
         IN IF cached_data.hit
            THEN [exc |-> "none", data |-> json_loads(cached_data.value),
                  cache |-> c, built |-> NotBuilt, fetches |-> 0]
            ELSE CHOOSE r \in
                    {IF first.exc = "RedisError"
                     THEN WithFetches(get_fresh_data(ov, api, t, first.cache, setOk2), 2)
                     ELSE WithFetches(first, 1) :
                        first \in {get_fresh_data(ov, api, t, c, setOk1)}} : TRUE
    ELSE WithFetches(get_fresh_data(ov, api, t, c, setOk2), 1)

\* lines 98-112: the body of the try block. raised is the status of the
\* HTTPException raised, 0 when the block returns, 500 stands for an
\* exception of get_cached_or_fresh_data.
chain_fees_try(chain_filter, r) ==
    IF r.exc # "none" THEN [raised |-> 500, body |-> NoData]
    ELSE IF chain_filter # <<>>
    THEN IF chain_filter \notin DOMAIN r.data.chainData
         THEN [raised |-> 404, body |-> NoData]
         ELSE [raised |-> 0,
               body |-> [dates |-> r.data.dates,
                         chainData |-> [c \in {chain_filter} |-> r.data.chainData[c]],
                         lastUpdated |-> r.data.lastUpdated]]
    ELSE [raised |-> 0, body |-> r.data]

\* lines 94-116: `except Exception` turns whatever the block raised, the
\* HTTPException(404) included, into HTTPException(500).
get_chain_fees(chain_filter, r) ==
    LET t == chain_fees_try(chain_filter, r)
    IN IF t.raised # 0
       THEN [status |-> 500, body |-> NoData]
       ELSE [status |-> 200, body |-> t.body]

\* lines 118-134: the except clause binds no name, so its log line raises
\* NameError and the request ends in the framework's 500 response.
health_check(pingOk) ==
    IF pingOk
    THEN [status |-> 200, body |-> [status |-> "healthy", redis |-> "connected"]]
    ELSE [status |-> 500, body |-> [status |-> "NameError", redis |-> "unknown"]]

-----------------------------------------------------------------------------
(* The upstream states the service runs against.                            *)

ChartOnly(chart) == Response(FALSE, TRUE, chart, FALSE, <<>>)

World(allChains, eth, btc, sol, fails) ==
    [overview |-> Overview(fails, allChains),
     chain_api |-> [c \in ChainUniverse |->
                        IF c = S_Ethereum THEN eth ELSE IF c = S_Bitcoin THEN btc ELSE sol]]

ServiceWorlds ==
    { World(<<S_Ethereum, S_Bitcoin, S_Solana>>,
            Response(FALSE, TRUE, <<<<0, 10>>, <<86400, 10>>>>, TRUE,
                     <<Protocol(S_Tether, TRUE, <<S_Ethereum>>, TRUE, <<<<0, 3>>>>)>>),
            ChartOnly(<<<<0, 7>>>>),
            FailedResponse, FALSE),
      World(<<S_Bitcoin, S_Solana>>,
            FailedResponse,
            ChartOnly(<<<<86400, 8>>>>),
            ChartOnly(<<<<0, 2>>, <<86400, 4>>>>), FALSE),
      World(<<>>, FailedResponse, FailedResponse, FailedResponse, TRUE) }

\* chain_filter: <<>> stands for None and for the empty string, both falsy
ChainFilters == {<<>>, S_Bitcoin, S_Solana}

NoCall ==
    [op |-> "none", at |-> 0, chain_filter |-> <<>>,
     getOk |-> TRUE, setOk1 |-> TRUE, setOk2 |-> TRUE,
     cache_before |-> NoCache, exc |-> "none", fetches |-> 0,
     data |-> NoData, status |-> 0, body |-> NoData]

IdleProcessor ==
    /\ chain_name = S_Bitcoin
    /\ data = FailedResponse
    /\ processed_data = NotCalled

\* The state when the process is launched: Redis is a separate server and
\* holds nothing yet.
Init ==
    /\ IdleProcessor
    /\ \E w \in ServiceWorlds : overview = w.overview /\ chain_api = w.chain_api
    /\ built = NotBuilt
    /\ now = 0
    /\ redis_mode \in {"up", "down", "flaky"}
    /\ cache = NoCache
    /\ started = FALSE
    /\ last = NoCall

\* A startup that reads through the cache (get_cached_or_fresh_data) instead
\* of forcing the refresh.
startup_event_CacheFirst ==
    /\ ~started
    /\ \E getOk \in RedisOutcomes(redis_mode) :
       \E setOk \in RedisOutcomes(redis_mode) :
       \E r \in {get_cached_or_fresh_data(overview, chain_api, now, cache,
                                          getOk, setOk, setOk)} :
           /\ cache' = r.cache
           /\ built' = r.built
           /\ last' = [NoCall EXCEPT !.op = "startup", !.at = now, !.setOk1 = setOk,
                                     !.cache_before = cache, !.exc = r.exc,
                                     !.fetches = r.fetches, !.data = r.data]
    /\ started' = TRUE
    /\ UNCHANGED <<procVars, upstreamVars, now, redis_mode>>

\* lines 39-47
startup_event ==
    /\ ~started
    /\ \E setOk \in RedisOutcomes(redis_mode) :
       \E r \in {get_fresh_data(overview, chain_api, now, cache, setOk)} :
           /\ cache' = r.cache
           /\ built' = r.built
           /\ last' = [NoCall EXCEPT !.op = "startup", !.at = now, !.setOk1 = setOk,
                                     !.cache_before = cache, !.exc = r.exc,
                                     !.fetches = 1, !.data = r.data]
    /\ started' = TRUE
    /\ UNCHANGED <<procVars, upstreamVars, now, redis_mode>>

\* GET /api/chain-fees, lines 94-116
GetChainFees ==
    /\ started
    /\ \E chain_filter \in ChainFilters :
       \E getOk \in RedisOutcomes(redis_mode) :
       \E setOk1 \in RedisOutcomes(redis_mode) :
       \E setOk2 \in RedisOutcomes(redis_mode) :
       \E r \in {get_cached_or_fresh_data(overview, chain_api, now, cache,
                                          getOk, setOk1, setOk2)} :
       \E response \in {get_chain_fees(chain_filter, r)} :
           /\ cache' = r.cache
           /\ built' = r.built
           /\ last' = [op |-> "get_chain_fees", at |-> now,
                       chain_filter |-> chain_filter,
                       getOk |-> getOk, setOk1 |-> setOk1, setOk2 |-> setOk2,
                       cache_before |-> cache, exc |-> r.exc, fetches |-> r.fetches,
                       data |-> r.data,
                       status |-> response.status, body |-> response.body]
    /\ UNCHANGED <<procVars, upstreamVars, now, redis_mode, started>>

\* GET /api/health, lines 118-134
HealthCheck ==
    /\ started
    /\ \E pingOk \in RedisOutcomes(redis_mode) :
        LET response == health_check(pingOk)
        IN last' = [NoCall EXCEPT !.op = "health_check", !.at = now, !.getOk = pingOk,
                                  !.cache_before = cache,
                                  !.status = response.status, !.body = response.body]
    /\ UNCHANGED <<procVars, upstreamVars, built, now, redis_mode, cache, started>>

\* The process is stopped and launched again; Redis keeps what it holds.
Restart ==
    /\ started
    /\ started' = FALSE
    /\ last' = NoCall
    /\ UNCHANGED <<procVars, upstreamVars, built, now, redis_mode, cache>>

\* Time passes.
Tick ==
    /\ now < MaxTicks * TickSeconds
    /\ now' = now + TickSeconds
    /\ UNCHANGED <<procVars, upstreamVars, built, redis_mode, cache, started, last>>

\* The cache backend goes away, comes back or becomes unreliable.
RedisChanges ==
    /\ \E m \in {"up", "down", "flaky"} : m # redis_mode /\ redis_mode' = m
    /\ UNCHANGED <<procVars, upstreamVars, built, now, cache, started, last>>

\* DefiLlama's data changes, or it becomes unreachable.
UpstreamChanges ==
    /\ \E w \in ServiceWorlds :
        /\ w.overview # overview \/ w.chain_api # chain_api
        /\ overview' = w.overview
        /\ chain_api' = w.chain_api
    /\ UNCHANGED <<procVars, built, serviceVars>>

Next ==
    \/ startup_event
    \/ GetChainFees
    \/ HealthCheck
    \/ Restart
    \/ Tick
    \/ RedisChanges
    \/ UpstreamChanges

Spec == Init /\ [][Next]_vars

-----------------------------------------------------------------------------
(* The processor's functions on their own, over bounded inputs.             *)

IdleService ==
    /\ now = 0
    /\ redis_mode = "up"
    /\ cache = NoCache
    /\ started = FALSE
    /\ last = NoCall

InitChain ==
    /\ chain_name \in ChainNamePool
    /\ data \in ChainResponses
    /\ processed_data = NotCalled
    /\ overview = Overview(TRUE, <<>>)
    /\ chain_api = [c \in ChainUniverse |-> FailedResponse]
    /\ built = NotBuilt
    /\ IdleService

CallGetChainData ==
    /\ ~processed_data.called
    /\ \E r \in {get_chain_data(chain_name, data)} :
          processed_data' = [called |-> TRUE, raised |-> r.raised, rows |-> r.rows]
    /\ UNCHANGED <<chain_name, data, upstreamVars, built, serviceVars>>

NextChain == CallGetChainData

SpecChain == InitChain /\ [][NextChain]_vars

InitBuild ==
    /\ IdleProcessor
    /\ overview \in Overviews
    /\ chain_api \in [ChainUniverse -> BuildResponses]
    /\ built = NotBuilt
    /\ IdleService

CallGetTimeSeriesFormat ==
    /\ ~built.called
    /\ \E r \in {get_time_series_format(overview, chain_api)} :
          built' = [called |-> TRUE, raised |-> r.raised, dates |-> r.dates,
                    all_data |-> r.all_data]
    /\ UNCHANGED <<procVars, upstreamVars, serviceVars>>

NextBuild == CallGetTimeSeriesFormat

SpecBuild == InitBuild /\ [][NextBuild]_vars

-----------------------------------------------------------------------------
(* What the properties are stated with.                                     *)

\* The UTC date string of each timestamp the inputs use, written out.
ExpectedDate(timestamp) ==
    CASE timestamp = 0 -> <<49, 57, 55, 48, 45, 48, 49, 45, 48, 49>>   \* 1970-01-01
    [] timestamp = 43200 -> <<49, 57, 55, 48, 45, 48, 49, 45, 48, 49>>   \* 1970-01-01
    [] timestamp = 86400 -> <<49, 57, 55, 48, 45, 48, 49, 45, 48, 50>>   \* 1970-01-02
    [] timestamp = 2678400 -> <<49, 57, 55, 48, 45, 48, 50, 45, 48, 49>>   \* 1970-02-01
    [] timestamp = 951782400 -> <<50, 48, 48, 48, 45, 48, 50, 45, 50, 57>>   \* 2000-02-29

\* Case-insensitive equality, by folding 'a'..'z' to upper case.
Upper(c) == IF c >= 97 /\ c <= 122 THEN c - 32 ELSE c
SameIgnoringCase(a, b) ==
    /\ Len(a) = Len(b)
    /\ \A i \in 1..Len(a) : Upper(a[i]) = Upper(b[i])

\* The correction set as the specification words it.
SpecNameMatches(protocol) ==
    \E n \in {S_tether, S_circle, S_usdt, S_usdc} : SameIgnoringCase(protocol.name, n)
SpecOnEthereum(protocol) ==
    /\ protocol.hasChains
    /\ \E i \in 1..Len(protocol.chains) : protocol.chains[i] = S_Ethereum
SpecInCorrectionSet(protocol) == SpecNameMatches(protocol) /\ SpecOnEthereum(protocol)

\* The breakdown entries <<p, e>> of `protocols` whose timestamp is `timestamp`.
EntriesAt(protocols, timestamp) ==
    {pe \in UNION {{<<p, e>> : e \in 1..Len(protocols[p].breakdown)} :
                        p \in {q \in 1..Len(protocols) : protocols[q].hasBreakdown}} :
        protocols[pe[1]].breakdown[pe[2]][1] = timestamp}

RECURSIVE SumFees(_, _)
SumFees(protocols, entries) ==
    IF entries = {} THEN 0
    ELSE LET pe == CHOOSE x \in entries : TRUE
         IN protocols[pe[1]].breakdown[pe[2]][2] + SumFees(protocols, entries \ {pe})

ListedProtocols == IF data.hasProtocols THEN data.protocols ELSE <<>>

ChainCallReturned == processed_data.called /\ ~data.fails /\ data.hasChart

\* One output point per input point, in input order, each dated by its UTC day.
RowsFollowChart ==
    /\ ~processed_data.raised
    /\ Len(processed_data.rows) = Len(data.totalDataChart)
    /\ \A i \in 1..Len(data.totalDataChart) :
        processed_data.rows[i].date = ExpectedDate(data.totalDataChart[i][1])

\* C7: for the Ethereum chain, the output value at each raw point (T, V) is V
\* minus the fees of every breakdown entry at exactly T of every protocol of the
\* correction set, cumulatively and without a floor at zero; one output point
\* per input point, in input order.
C7_EthereumCorrection ==
    (ChainCallReturned /\ SameIgnoringCase(chain_name, S_ethereum)) =>
        /\ RowsFollowChart
        /\ \A i \in 1..Len(data.totalDataChart) :
            LET T == data.totalDataChart[i][1]
                V == data.totalDataChart[i][2]
                tcp == tether_circle_protocols(data)
            IN processed_data.rows[i].value = V - SumFees(tcp, EntriesAt(tcp, T))

\* Two protocols of the correction set have an entry at the timestamp of one
\* raw point, and the corrected value there is below zero.
C7_Witness ==
    /\ ChainCallReturned
    /\ SameIgnoringCase(chain_name, S_ethereum)
    /\ \E i \in 1..Len(data.totalDataChart) :
        LET tcp == tether_circle_protocols(data)
        IN /\ Len(tcp) = 2
           /\ \A p \in 1..2 : \E e \in 1..Len(tcp[p].breakdown) :
                tcp[p].hasBreakdown /\ tcp[p].breakdown[e][1] = data.totalDataChart[i][1]
           /\ processed_data.rows[i].value < 0

\* C8: the correction set holds exactly the protocols whose name matches
\* tether, circle, usdt or usdc ignoring case and whose chains list holds
\* "Ethereum"; nothing of any other protocol is subtracted; a response without
\* "protocols", or a protocol without "breakdown", subtracts nothing and the
\* call does not fail.
C8_CorrectionSetMembership ==
    (ChainCallReturned /\ SameIgnoringCase(chain_name, S_ethereum)) =>
        /\ ~processed_data.raised
        /\ tether_circle_protocols(data) = SelectSeq(ListedProtocols, SpecInCorrectionSet)
        /\ \A i \in 1..Len(data.totalDataChart) :
            LET T == data.totalDataChart[i][1]
                V == data.totalDataChart[i][2]
                members == SelectSeq(ListedProtocols, SpecInCorrectionSet)
            IN /\ i <= Len(processed_data.rows)
               /\ processed_data.rows[i].value = V - SumFees(members, EntriesAt(members, T))

\* An Ethereum call whose response lists a protocol with a matching name that
\* is not on Ethereum, with a breakdown entry at a raw point's timestamp, next
\* to a protocol that is in the correction set.
C8_Witness ==
    /\ ChainCallReturned
    /\ SameIgnoringCase(chain_name, S_ethereum)
    /\ \E p \in 1..Len(ListedProtocols) :
        /\ SpecNameMatches(ListedProtocols[p])
        /\ ~SpecOnEthereum(ListedProtocols[p])
        /\ \E i \in 1..Len(data.totalDataChart) :
            EntriesAt(<<ListedProtocols[p]>>, data.totalDataChart[i][1]) # {}
    /\ \E p \in 1..Len(ListedProtocols) : SpecInCorrectionSet(ListedProtocols[p])

\* An Ethereum call whose response has no "protocols" field.
C8_WitnessMissingProtocols ==
    /\ ChainCallReturned
    /\ SameIgnoringCase(chain_name, S_ethereum)
    /\ ~data.hasProtocols
    /\ data.totalDataChart # <<>>

\* An Ethereum call with a correction-set protocol that has no "breakdown".
C8_WitnessMissingBreakdown ==
    /\ ChainCallReturned
    /\ SameIgnoringCase(chain_name, S_ethereum)
    /\ data.totalDataChart # <<>>
    /\ \E p \in 1..Len(ListedProtocols) :
        SpecInCorrectionSet(ListedProtocols[p]) /\ ~ListedProtocols[p].hasBreakdown

\* C9: for a chain whose name is not "ethereum" ignoring case, the call
\* completes and its values are the raw values verbatim whatever protocols and
\* breakdowns the response holds, each date the UTC day of its timestamp.
C9_OtherChainsVerbatim ==
    (ChainCallReturned /\ ~SameIgnoringCase(chain_name, S_ethereum)) =>
        /\ RowsFollowChart
        /\ \A i \in 1..Len(data.totalDataChart) :
            processed_data.rows[i].value = data.totalDataChart[i][2]

\* A call for another chain whose response holds a correction-set protocol
\* with a breakdown entry at a raw point's timestamp.
C9_Witness ==
    /\ ChainCallReturned
    /\ ~SameIgnoringCase(chain_name, S_ethereum)
    /\ \E p \in 1..Len(ListedProtocols) :
        /\ SpecInCorrectionSet(ListedProtocols[p])
        /\ \E i \in 1..Len(data.totalDataChart) :
            EntriesAt(<<ListedProtocols[p]>>, data.totalDataChart[i][1]) # {}

-----------------------------------------------------------------------------

ListedChains == {overview.allChains[i] : i \in 1..Len(overview.allChains)}

\* The series fetch of chain c fails: the request raises or the response has
\* no totalDataChart.
FetchFails(c) == chain_api[c].fails \/ ~chain_api[c].hasChart
FetchEmpty(c) == ~FetchFails(c) /\ chain_api[c].totalDataChart = <<>>

\* What one chain contributes on its own.
SeriesOf(c) == date_value_dict(get_chain_data(c, chain_api[c]).rows)

\* The build of the same list without the chains whose fetch fails.
BuildWithoutFailing ==
    LET keep(c) == ~FetchFails(c)
    IN get_time_series_format(Overview(FALSE, SelectSeq(overview.allChains, keep)),
                              chain_api)

BuildReturned == built.called /\ ~overview.fails

\* C5: whatever chains fail, the build completes; every failing chain and
\* every chain with an empty series is absent; the other chains' data and the
\* dates are what the build gives when the failing chains are not listed.
C5_PartialFailure ==
    BuildReturned =>
        /\ ~built.raised
        /\ \A c \in ListedChains :
            IF FetchFails(c) \/ FetchEmpty(c)
            THEN c \notin DOMAIN built.all_data
            ELSE c \in DOMAIN built.all_data /\ built.all_data[c] = SeriesOf(c)
        /\ built.all_data = BuildWithoutFailing.all_data
        /\ built.dates = BuildWithoutFailing.dates

\* A build over a failing chain, a chain with an empty series and a chain
\* with data, the failing one listed first.
C5_Witness ==
    /\ BuildReturned
    /\ Len(overview.allChains) = 3
    /\ FetchFails(overview.allChains[1])
    /\ \E c \in ListedChains : FetchEmpty(c)
    /\ \E c \in ListedChains : c \in DOMAIN built.all_data

\* The timestamps of the chart of an included chain.
ChartTimestamps(c) ==
    {chain_api[c].totalDataChart[i][1] : i \in 1..Len(chain_api[c].totalDataChart)}

\* C6: the dates of a snapshot are the union of the date sets of exactly the
\* chains it includes, in ascending order without duplicates.
C6_DateUnion ==
    (built.called /\ ~built.raised) =>
        /\ DOMAIN built.all_data = {c \in ListedChains : ~FetchFails(c) /\ ~FetchEmpty(c)}
        /\ \A c \in DOMAIN built.all_data :
            DOMAIN built.all_data[c] = {ExpectedDate(t) : t \in ChartTimestamps(c)}
        /\ {built.dates[i] : i \in 1..Len(built.dates)}
            = UNION {{ExpectedDate(t) : t \in ChartTimestamps(c)} : c \in DOMAIN built.all_data}
        /\ \A i \in 1..Len(built.dates) : \A j \in 1..Len(built.dates) :
            i < j =>
                /\ StrLess(built.dates[i], built.dates[j])
                /\ \A c1 \in DOMAIN built.all_data : \A c2 \in DOMAIN built.all_data :
                   \A t1 \in ChartTimestamps(c1) : \A t2 \in ChartTimestamps(c2) :
                        (ExpectedDate(t1) = built.dates[i] /\ ExpectedDate(t2) = built.dates[j])
                            => t1 < t2

\* A snapshot of two chains that share no date, whose charts are not in date
\* order, built next to a chain that was skipped.
C6_Witness ==
    /\ built.called /\ ~built.raised
    /\ Cardinality(DOMAIN built.all_data) = 2
    /\ Len(built.dates) = 4
    /\ \E c \in ListedChains : FetchFails(c)

-----------------------------------------------------------------------------
(* The service.                                                             *)

\* The snapshot a rebuild made at time t produces from what the processor
\* returned.
BuiltSnapshot(t) ==
    [dates |-> built.dates, chainData |-> built.all_data, lastUpdated |-> t]

\* What Redis holds after a rebuild at time t stored its snapshot.
StoredAt(t) ==
    [present |-> TRUE, value |-> json_dumps(BuiltSnapshot(t)), stored_at |-> t,
     expires_at |-> t + CACHE_EXPIRATION]

ReadRan == last.op = "get_chain_fees"
BackendAnswered == last.getOk /\ last.setOk1 /\ last.setOk2
BackendDown == ~last.getOk /\ ~last.setOk1 /\ ~last.setOk2
UpstreamAnswered == built.called /\ ~built.raised

\* The read came within the TTL window of the snapshot stored before it.
WithinTTL ==
    /\ last.cache_before.present
    /\ last.at - last.cache_before.stored_at < CACHE_EXPIRATION

\* C1: with the backend reachable, a read within 24 hours of the stored
\* snapshot's insertion returns that snapshot and invokes the fetcher not at
\* all (so two reads in the window rebuild at most once: only the first can
\* miss); a read with no snapshot or an expired one invokes the fetcher exactly
\* once and, the upstream answering, stores what it built for 24 hours.
C1_CacheWithinTTL ==
    (ReadRan /\ BackendAnswered) =>
        IF WithinTTL
        THEN /\ last.fetches = 0
             /\ ~built.called
             /\ cache = last.cache_before
             /\ last.data = json_loads(last.cache_before.value)
        ELSE /\ last.fetches = 1
             /\ built.called
             /\ UpstreamAnswered =>
                    /\ cache = StoredAt(last.at)
                    /\ last.data = BuiltSnapshot(last.at)

\* A read that found the stored snapshot expired, rebuilt and stored.
C1_Witness ==
    /\ ReadRan /\ BackendAnswered /\ UpstreamAnswered
    /\ last.cache_before.present
    /\ last.at - last.cache_before.stored_at >= CACHE_EXPIRATION
    /\ last.fetches = 1
    /\ cache = StoredAt(last.at)
    /\ cache.value # last.cache_before.value

\* A read within the window of a snapshot stored earlier: no rebuild.
C1_WitnessHit ==
    /\ ReadRan /\ BackendAnswered
    /\ WithinTTL
    /\ last.at > last.cache_before.stored_at
    /\ last.fetches = 0
    /\ last.status = 200

\* C2: with the backend unreachable and the upstream reachable, an
\* unfiltered read answers 200 with a freshly built snapshot and caches
\* nothing.
C2_DegradesGracefully ==
    (ReadRan /\ BackendDown /\ UpstreamAnswered /\ last.chain_filter = <<>>) =>
        /\ last.status = 200
        /\ last.body = BuiltSnapshot(last.at)
        /\ cache = last.cache_before

\* C3: a read filtered by a chain that the snapshot lacks answers 404; one
\* filtered by a chain it has answers that chain's series alone with the whole
\* date list.
C3_ChainFilter ==
    (ReadRan /\ last.exc = "none" /\ last.chain_filter # <<>>) =>
        IF last.chain_filter \notin DOMAIN last.data.chainData
        THEN last.status = 404
        ELSE /\ last.status = 200
             /\ DOMAIN last.body.chainData = {last.chain_filter}
             /\ last.body.chainData[last.chain_filter]
                    = last.data.chainData[last.chain_filter]
             /\ last.body.dates = last.data.dates

\* The part of C3 about a chain the snapshot has.
C3_PresentChain ==
    (ReadRan /\ last.exc = "none" /\ last.chain_filter # <<>>
        /\ last.chain_filter \in DOMAIN last.data.chainData) =>
        /\ last.status = 200
        /\ DOMAIN last.body.chainData = {last.chain_filter}
        /\ last.body.chainData[last.chain_filter] = last.data.chainData[last.chain_filter]
        /\ last.body.dates = last.data.dates

\* C4: the health check always answers 200, "connected" when the backend
\* answered the ping and "disconnected" when it did not.
C4_HealthCheckCompletes ==
    last.op = "health_check" =>
        /\ last.status = 200
        /\ last.body.redis = IF last.getOk THEN "connected" ELSE "disconnected"

\* The part of C4 about a backend that answers.
C4_Connected ==
    (last.op = "health_check" /\ last.getOk) =>
        last.status = 200 /\ last.body.redis = "connected"

StartupRan == last.op = "startup"

\* C10: startup rebuilds whatever Redis holds. The upstream and the backend
\* answering, Redis then holds exactly the snapshot built during startup, the
\* whole value replaced; a startup whose rebuild fails leaves Redis as it was;
\* either way the process goes on to serve requests.
C10_StartupForcesRebuild ==
    StartupRan =>
        /\ started
        /\ last.fetches = 1
        /\ built.called
        /\ (UpstreamAnswered /\ last.setOk1) <=> last.exc = "none"
        /\ IF last.exc = "none"
           THEN cache = StoredAt(last.at)
           ELSE cache = last.cache_before

\* A startup that found an unexpired snapshot stored and replaced it by
\* another.
C10_Witness ==
    /\ StartupRan
    /\ last.exc = "none"
    /\ last.cache_before.present
    /\ last.at < last.cache_before.expires_at
    /\ cache = StoredAt(last.at)
    /\ cache.value.chainData # last.cache_before.value.chainData

\* A startup whose rebuild failed with a snapshot stored.
C10_WitnessFailed ==
    /\ StartupRan
    /\ last.exc # "none"
    /\ last.cache_before.present
    /\ started

====
